---- MODULE Spec2Model ----
(***************************************************************************)
(* Model of the PreppedData DataFrame accessor of prep_data_v2.py.         *)
(*                                                                         *)
(* A string is a sequence of one-character strings, so that upper-casing,  *)
(* prefix tests, substring tests and the trailing-zero pattern are         *)
(* computed on the characters.  A cell is a record: k is the kind of the   *)
(* value ("str", "int", "float", or "na" for NaN / the absent value), s    *)
(* the characters of a string, n the number (floats are held in tenths).   *)
(* A table is a sequence of columns (name, dtype, cells) and a row index.  *)
(***************************************************************************)
EXTENDS Integers, Sequences, FiniteSets, TLC

\* ------------------------------------------------------------------------
\* Bounds of the model
\* ------------------------------------------------------------------------
\* rows of the tables of the type-conversion and the any-order specifications
MaxRows == 2
\* rows of the tables of the sentinel-substitution specifications
MaxSentinelRows == 1
\* calls the caller makes in one behaviour
MaxOps == 2

\* ------------------------------------------------------------------------
\* Strings
\* ------------------------------------------------------------------------
LowerLetters ==
  <<"a","b","c","d","e","f","g","h","i","j","k","l","m",
    "n","o","p","q","r","s","t","u","v","w","x","y","z">>

UpperLetters ==
  <<"A","B","C","D","E","F","G","H","I","J","K","L","M",
    "N","O","P","Q","R","S","T","U","V","W","X","Y","Z">>

Digits == <<"0","1","2","3","4","5","6","7","8","9">>

UpperChar(c) ==
  IF \E i \in DOMAIN LowerLetters : LowerLetters[i] = c
  THEN UpperLetters[CHOOSE i \in DOMAIN LowerLetters : LowerLetters[i] = c]
  ELSE c

LowerChar(c) ==
  IF \E i \in DOMAIN UpperLetters : UpperLetters[i] = c
  THEN LowerLetters[CHOOSE i \in DOMAIN UpperLetters : UpperLetters[i] = c]
  ELSE c

\* str.upper()
Upper(s) == [i \in DOMAIN s |-> UpperChar(s[i])]

\* str.lower(), used only to state case-insensitive properties
Lower(s) == [i \in DOMAIN s |-> LowerChar(s[i])]

\* str.startswith(p)
StartsWith(s, p) == Len(s) >= Len(p) /\ SubSeq(s, 1, Len(p)) = p

\* p in s
Contains(s, p) ==
  \E i \in 1..(Len(s) - Len(p) + 1) : SubSeq(s, i, i + Len(p) - 1) = p

IsDigit(c) == \E i \in DOMAIN Digits : Digits[i] = c

DigitVal(c) == (CHOOSE i \in DOMAIN Digits : Digits[i] = c) - 1

\* ------------------------------------------------------------------------
\* Cells
\* ------------------------------------------------------------------------
Str(s) == [k |-> "str", s |-> s, n |-> 0]
IntCell(i) == [k |-> "int", s |-> <<>>, n |-> i]
FloatCell(t) == [k |-> "float", s |-> <<>>, n |-> t]
NA == [k |-> "na", s |-> <<>>, n |-> 0]

sEmpty == <<>>
sSpace == <<" ">>
sSpace2 == <<" ", " ">>
sDot == <<".">>
sNan == <<"n","a","n">>
sNaN == <<"N","a","N">>
sM == <<"M">>
sL == <<"L">>
sDotM == <<".","M">>
sDotL == <<".","L">>
sNAME == <<"N","A","M","E">>
sUnnamedLower == <<"u","n","n","a","m","e","d">>
sUnnamedUpper == <<"U","N","N","A","M","E","D">>

\* ------------------------------------------------------------------------
\* Tables
\* ------------------------------------------------------------------------
Column(name, dtype, cells) == [name |-> name, dtype |-> dtype, cells |-> cells]

NumCols(t) == Len(t.columns)
NumRows(t) == Len(t.index)
ColNames(t) == [i \in DOMAIN t.columns |-> t.columns[i].name]
ColNameSet(t) == {t.columns[i].name : i \in DOMAIN t.columns}

RECURSIVE SelectSeqBy(_, _)
\* the subsequence of s at the positions i with keep[i], in order
SelectSeqBy(s, keep) ==
  IF s = <<>> THEN <<>>
  ELSE LET n == Len(s)
           front == SelectSeqBy(SubSeq(s, 1, n - 1), keep)
       IN IF keep[n] THEN Append(front, s[n]) ELSE front

IsNumericKind(c) == c.k \in {"int", "float", "na"}

\* dtype of a column after cells were written into it: a numeric column
\* that receives a string becomes object
DtypeAfter(old, cells) ==
  IF old = "object" THEN "object"
  ELSE IF \A i \in DOMAIN cells : IsNumericKind(cells[i]) THEN old
  ELSE "object"

\* DataFrame.replace(d): d maps cell values to their replacement; every mask
\* is computed on the values before the call, so replacements do not chain
ReplaceCell(c, d) == IF c \in DOMAIN d THEN d[c] ELSE c

ReplaceColumn(col, d) ==
  LET cells == [i \in DOMAIN col.cells |-> ReplaceCell(col.cells[i], d)]
  IN Column(col.name, DtypeAfter(col.dtype, cells), cells)

Replace(t, d) ==
  [t EXCEPT !.columns = [i \in DOMAIN t.columns |-> ReplaceColumn(t.columns[i], d)]]

\* {k: v for k in keys}
ConstDict(keys, v) == [c \in keys |-> v]

\* ------------------------------------------------------------------------
\* Column-name operations
\* ------------------------------------------------------------------------

\* "NAME" in col
IsNameCol(name) == Contains(name, sNAME)

\* PreppedData.capitalize_cols: self.data.columns = self.data.columns.str.upper()
CapitalizeCols(t) ==
  [t EXCEPT !.columns =
     [i \in DOMAIN t.columns |-> [t.columns[i] EXCEPT !.name = Upper(@)]]]

\* DropColsStartingWith taking the first column out whatever its name
DropFirstColumn(t, prefix) ==
  [t EXCEPT !.columns = IF @ = <<>> THEN <<>> ELSE Tail(@)]

\* self.data.loc[:, ~self.data.columns.str.startswith(prefix)]
DropColsStartingWith(t, prefix) ==
  [t EXCEPT !.columns =
     SelectSeqBy(t.columns,
                 [i \in DOMAIN t.columns |-> ~StartsWith(t.columns[i].name, prefix)])]

\* PreppedData.fix_index: the two filters, one after the other
FixIndex(t) ==
  DropColsStartingWith(DropColsStartingWith(t, sUnnamedLower), sUnnamedUpper)

\* ------------------------------------------------------------------------
\* Sentinel substitution
\* ------------------------------------------------------------------------

\* self.data[cols].copy(): the columns whose name is not in names
ColumnsNotIn(t, names) ==
  [t EXCEPT !.columns =
     SelectSeqBy(t.columns,
                 [i \in DOMAIN t.columns |-> t.columns[i].name \notin names])]

HasColumn(t, name) == \E j \in DOMAIN t.columns : t.columns[j].name = name

ColumnNamed(t, name) ==
  t.columns[CHOOSE j \in DOMAIN t.columns : t.columns[j].name = name]

\* DataFrame.update(other): for the columns of other, take other's value
\* wherever it is not NA and keep this table's value elsewhere
UpdateColumn(col, that) ==
  LET cells == [i \in DOMAIN col.cells |->
                  IF that.cells[i] = NA THEN col.cells[i] ELSE that.cells[i]]
  IN Column(col.name, DtypeAfter(col.dtype, cells), cells)

Update(t, other) ==
  [t EXCEPT !.columns =
     [i \in DOMAIN t.columns |->
        IF HasColumn(other, t.columns[i].name)
        THEN UpdateColumn(t.columns[i], ColumnNamed(other, t.columns[i].name))
        ELSE t.columns[i]]]

\* name_cols = [col for col in self.data.columns if "NAME" in col]
NameCols(t) == {nm \in ColNameSet(t) : IsNameCol(nm)}

\* blank_list of update_blanks: [" ", "", ".", "nan", "NaN", pd.NA, np.nan]
BlankList == {Str(sSpace), Str(sEmpty), Str(sDot), Str(sNan), Str(sNaN), NA}

\* UpdateBlanks that leaves the name columns out, as update_missing does
\* for the bare letters
UpdateBlanksOutsideNameCols(t, blank_val, blank_additions) ==
  Update(t, Replace(ColumnsNotIn(t, NameCols(t)),
                    ConstDict(BlankList \cup blank_additions, blank_val)))

\* PreppedData.update_blanks
UpdateBlanks(t, blank_val, blank_additions) ==
  Replace(t, ConstDict(BlankList \cup blank_additions, blank_val))

\* DotBareLetters without the name-column exclusion: every column gets the dots
DotBareLettersEveryColumn(t) ==
  Update(t, Replace(t, (Str(sM) :> Str(sDotM)) @@ (Str(sL) :> Str(sDotL))))

\* update_missing, lines 151-155: bare M / L of the non-name columns get a dot
DotBareLetters(t) ==
  LET subset == ColumnsNotIn(t, NameCols(t))
      dotted == Replace(subset, (Str(sM) :> Str(sDotM)) @@ (Str(sL) :> Str(sDotL)))
  IN Update(t, dotted)

\* miss_lst of update_missing
MissList(blank, miss_additions) ==
  (IF blank THEN {Str(sDotM)}
   ELSE {Str(sDotM), Str(sEmpty), Str(sSpace), Str(sNan), Str(sNaN), NA, Str(sDot)})
  \cup miss_additions

\* LogSkipList without the test for name columns: bare L always a marker
LogSkipListAlwaysBareL(t, logskip_additions) ==
  {Str(sDotL), Str(sL)} \cup logskip_additions

\* log_skip of update_missing: bare L only when the table has no name column
LogSkipList(t, logskip_additions) ==
  (IF \E nm \in NameCols(t) : nm \in ColNameSet(t)
   THEN {Str(sDotL)}
   ELSE {Str(sDotL), Str(sL)})
  \cup logskip_additions

\* UpdateMissing with the two replacements in the other order
UpdateMissingLogSkipFirst(t, miss_val, log_skip_val, miss_additions, logskip_additions, blank) ==
  LET t1 == DotBareLetters(t)
      t2 == Replace(t1, ConstDict(LogSkipList(t, logskip_additions), log_skip_val))
  IN Replace(t2, ConstDict(MissList(blank, miss_additions), miss_val))

\* PreppedData.update_missing
UpdateMissing(t, miss_val, log_skip_val, miss_additions, logskip_additions, blank) ==
  LET t1 == DotBareLetters(t)
      t2 == Replace(t1, ConstDict(MissList(blank, miss_additions), miss_val))
  IN Replace(t2, ConstDict(LogSkipList(t, logskip_additions), log_skip_val))

\* ------------------------------------------------------------------------
\* Numbers and their text
\* ------------------------------------------------------------------------
ParseFail == [k |-> "fail", s |-> <<>>, n |-> 0]

RECURSIVE NatOf(_)
\* the number written by a sequence of digits
NatOf(ds) ==
  IF ds = <<>> THEN 0
  ELSE NatOf(SubSeq(ds, 1, Len(ds) - 1)) * 10 + DigitVal(ds[Len(ds)])

RECURSIVE NatToStr(_)
NatToStr(n) ==
  IF n < 10 THEN <<Digits[n + 1]>>
  ELSE NatToStr(n \div 10) \o <<Digits[(n % 10) + 1]>>

Abs(n) == IF n < 0 THEN -n ELSE n

AllDigits(ds) == \A i \in DOMAIN ds : IsDigit(ds[i])

\* an unsigned decimal: digits, with at most one point, at least one digit.
\* Floats are held in tenths; the model's values have one fractional digit.
ParseUnsigned(s) ==
  IF s # <<>> /\ AllDigits(s) THEN IntCell(NatOf(s))
  ELSE IF \E p \in DOMAIN s :
            /\ s[p] = "."
            /\ AllDigits(SubSeq(s, 1, p - 1))
            /\ AllDigits(SubSeq(s, p + 1, Len(s)))
            /\ Len(s) > 1
       THEN LET p == CHOOSE q \in DOMAIN s : s[q] = "."
                frac == SubSeq(s, p + 1, Len(s))
            IN FloatCell(NatOf(SubSeq(s, 1, p - 1)) * 10
                         + (IF frac = <<>> THEN 0 ELSE DigitVal(frac[1])))
       ELSE ParseFail

Negate(c) == IF c.k \in {"int", "float"} THEN [c EXCEPT !.n = -@] ELSE c

\* what pd.to_numeric makes of one string: a number, NaN for the text
\* "nan" in any case, or a failure
ParseNumber(s) ==
  IF Lower(s) = sNan THEN NA
  ELSE IF s # <<>> /\ s[1] = "-" THEN Negate(ParseUnsigned(Tail(s)))
  ELSE IF s # <<>> /\ s[1] = "+" THEN ParseUnsigned(Tail(s))
  ELSE ParseUnsigned(s)

\* str(value)
CellToStr(c) ==
  CASE c.k = "str" -> c.s
    [] c.k = "int" -> (IF c.n < 0 THEN <<"-">> ELSE <<>>) \o NatToStr(Abs(c.n))
    [] c.k = "float" ->
         (IF c.n < 0 THEN <<"-">> ELSE <<>>)
         \o NatToStr(Abs(c.n) \div 10) \o <<".">> \o <<Digits[(Abs(c.n) % 10) + 1]>>
    [] OTHER -> sNan

\* str.replace("[.][0]+$", "", regex=True): a point followed by zeros up to
\* the end of the text is cut off
StripDotZeros(s) ==
  IF \E p \in DOMAIN s :
       s[p] = "." /\ p < Len(s) /\ \A j \in (p + 1)..Len(s) : s[j] = "0"
  THEN LET p == CHOOSE q \in DOMAIN s :
                  s[q] = "." /\ q < Len(s) /\ \A j \in (q + 1)..Len(s) : s[j] = "0"
       IN SubSeq(s, 1, p - 1)
  ELSE s

IsIntegral(c) == c.k = "int" \/ (c.k = "float" /\ c.n % 10 = 0)

ToInt(c) == IF c.k = "float" THEN IntCell(c.n \div 10) ELSE c

ToFloat(c) == IF c.k = "int" THEN FloatCell(c.n * 10) ELSE c

\* int(value): the fraction is dropped
Truncate(c) ==
  IF c.k = "float"
  THEN IntCell(IF c.n < 0 THEN -(Abs(c.n) \div 10) ELSE c.n \div 10)
  ELSE c

\* ------------------------------------------------------------------------
\* Column types
\* ------------------------------------------------------------------------
IsObject(col) == col.dtype = "object"

\* columns of select_dtypes(exclude="object") become object, cells kept
SetAllObject(t) ==
  [t EXCEPT !.columns =
     [i \in DOMAIN t.columns |-> [t.columns[i] EXCEPT !.dtype = "object"]]]

\* PreppedData.set_int_object: all columns object, then every cell is
\* str(cell) with a trailing ".0", ".00", ... removed
SetIntObject(t) ==
  LET t1 == SetAllObject(t)
  IN [t1 EXCEPT !.columns =
        [i \in DOMAIN t1.columns |->
           [t1.columns[i] EXCEPT !.cells =
              [r \in DOMAIN @ |-> Str(StripDotZeros(CellToStr(@[r])))]]]]

\* the value of one cell under pd.to_numeric
NumericOf(c) == IF c.k = "str" THEN ParseNumber(c.s) ELSE c

\* pd.to_numeric(series, downcast): ok is FALSE when a cell does not parse
\* (the call raises); otherwise col is the numeric column
ToNumeric(col, as_int) ==
  LET vals == [r \in DOMAIN col.cells |-> NumericOf(col.cells[r])]
      ok == \A r \in DOMAIN vals : vals[r] # ParseFail
      allInt == \A r \in DOMAIN vals : vals[r].k = "int"
      canDown == \A r \in DOMAIN vals : IsIntegral(vals[r])
      small == \A r \in DOMAIN vals : ToInt(vals[r]).n \in (-128)..127
  IN IF ~ok THEN [ok |-> FALSE, col |-> col]
     ELSE IF as_int /\ canDown
     THEN [ok |-> TRUE,
           col |-> Column(col.name, IF small THEN "int8" ELSE "int64",
                          [r \in DOMAIN vals |-> ToInt(vals[r])])]
     ELSE IF allInt
     THEN [ok |-> TRUE,
           col |-> Column(col.name,
                          IF IsObject(col) THEN "int64" ELSE col.dtype, vals)]
     ELSE [ok |-> TRUE,
           col |-> Column(col.name, "float64",
                          [r \in DOMAIN vals |-> ToFloat(vals[r])])]

RECURSIVE RemoveFirst(_, _)
\* list.remove(x) on a list that holds x
RemoveFirst(s, x) ==
  IF s = <<>> THEN <<>>
  ELSE IF Head(s) = x THEN Tail(s)
  ELSE <<Head(s)>> \o RemoveFirst(Tail(s), x)

InSeq(s, x) == \E i \in DOMAIN s : s[i] = x

RECURSIVE RemoveEach(_, _)
\* for c in exclude: columns.remove(c); ok is FALSE when a remove raises
\* ValueError because c is not (or no longer) in the list
RemoveEach(cols, exclude) ==
  IF exclude = <<>> THEN [ok |-> TRUE, cols |-> cols]
  ELSE IF ~InSeq(cols, Head(exclude)) THEN [ok |-> FALSE, cols |-> cols]
  ELSE RemoveEach(RemoveFirst(cols, Head(exclude)), Tail(exclude))

\* TryToNumeric converting cell by cell: the cells that parse become
\* numbers and the others stay
TryToNumericCellwise(col, as_int) ==
  Column(col.name, "object",
         [r \in DOMAIN col.cells |->
            IF NumericOf(col.cells[r]) = ParseFail
            THEN col.cells[r] ELSE NumericOf(col.cells[r])])

\* the try / except of convert_num_dtypes for one column
TryToNumeric(col, as_int) ==
  IF ToNumeric(col, as_int).ok THEN ToNumeric(col, as_int).col ELSE col

\* PreppedData.convert_num_dtypes: raised is TRUE when the call ends in the
\* ValueError of columns.remove, before any column is converted
ConvertNumDtypes(t, exclude, as_int) ==
  LET rem == RemoveEach(ColNames(t), exclude)
  IN IF ~rem.ok THEN [raised |-> TRUE, table |-> t]
     ELSE [raised |-> FALSE,
           table |-> [t EXCEPT !.columns =
                        [i \in DOMAIN t.columns |->
                           IF InSeq(rem.cols, t.columns[i].name)
                           THEN TryToNumeric(t.columns[i], as_int)
                           ELSE t.columns[i]]]]

\* Series.astype(dtype) of one column: ok is FALSE when a value cannot be
\* cast (the call raises ValueError)
AsTypeColumn(col, dtype) ==
  LET vals == [r \in DOMAIN col.cells |-> NumericOf(col.cells[r])]
  IN IF dtype = "object" THEN [ok |-> TRUE, col |-> [col EXCEPT !.dtype = "object"]]
     ELSE IF dtype = "float64"
     THEN [ok |-> \A r \in DOMAIN vals : vals[r] # ParseFail,
           col |-> Column(col.name, dtype, [r \in DOMAIN vals |-> ToFloat(vals[r])])]
     ELSE [ok |-> \A r \in DOMAIN vals :
                    \/ col.cells[r].k \in {"int", "float"}
                    \/ (col.cells[r].k = "str" /\ vals[r].k = "int"),
           col |-> Column(col.name, dtype, [r \in DOMAIN vals |-> Truncate(vals[r])])]

\* DataFrame.astype(dtype_dict), dtype_dict being the dtypes of before
AsType(t, before) ==
  LET cast == [i \in DOMAIN t.columns |->
                 AsTypeColumn(t.columns[i], before.columns[i].dtype)]
  IN [ok |-> \A i \in DOMAIN cast : cast[i].ok,
      table |-> [t EXCEPT !.columns = [i \in DOMAIN cast |-> cast[i].col]]]

\* exclude_cols is a str or a list: if isinstance(exclude_cols, str): [exclude_cols]
ExcludeList(exclude_cols) ==
  IF exclude_cols.isstr THEN <<exclude_cols.str>> ELSE exclude_cols.list

SeqToSet(s) == {s[i] : i \in DOMAIN s}

\* update_other_missing, lines 193-201: the table after self.data.update(subset)
OtherMissingUpdated(t, add_miss_val, change_to_val, exclude_cols) ==
  LET name_cols == NameCols(t) \cup SeqToSet(ExcludeList(exclude_cols))
      subset == ColumnsNotIn(t, name_cols)
  IN Update(t, Replace(subset, add_miss_val :> change_to_val))

\* PreppedData.update_other_missing; raised is TRUE when astype raises
UpdateOtherMissing(t, add_miss_val, change_to_val, exclude_cols) ==
  LET upd == OtherMissingUpdated(t, add_miss_val, change_to_val, exclude_cols)
      cast == AsType(upd, t)
  IN [raised |-> ~cast.ok, updated |-> upd, table |-> cast.table]

\* ------------------------------------------------------------------------
\* State
\* ------------------------------------------------------------------------
VARIABLES
  df,      \* the DataFrame the caller holds (the one df.prep was made for)
  data,    \* self.data of the accessor
  same,    \* TRUE while self.data is the caller's DataFrame object itself
  op,      \* the last call made by the caller, with its arguments
  pre,     \* self.data when that call was made
  ret,     \* the table that call returned
  raised,  \* TRUE when that call ended in an exception
  pc,      \* position inside full_prep, "idle" between calls
  calls,   \* the methods run on behalf of that call, in order
  nops     \* number of calls the caller has made

vars == <<df, data, same, op, pre, ret, raised, pc, calls, nops>>

NoExclude == [isstr |-> FALSE, str |-> <<>>, list |-> <<>>]

NoCall ==
  [name |-> "none", miss_val |-> NA, log_skip_val |-> NA,
   miss_additions |-> {}, logskip_additions |-> {}, blank |-> FALSE,
   blank_val |-> NA, blank_additions |-> {},
   add_miss_val |-> NA, change_to_val |-> NA, exclude_cols |-> NoExclude,
   exclude |-> <<>>, as_int |-> FALSE]

\* a table of object columns with the given names, n rows and a RangeIndex
TablesOf(names, n, Vals) ==
  {[columns |-> [i \in DOMAIN names |-> Column(names[i], "object", f[i])],
    index |-> [r \in 1..n |-> r - 1]] :
     f \in [DOMAIN names -> [1..n -> Vals]]}

TablesUpTo(NameLists, maxRows, Vals) ==
  UNION {UNION {TablesOf(names, n, Vals) : n \in 1..maxRows} : names \in NameLists}

\* PreppedData.__init__: self.data = pandas_obj
InitWith(Tables) ==
  /\ df \in Tables
  /\ data = df
  /\ same = TRUE
  /\ op = NoCall
  /\ pre = df
  /\ ret = df
  /\ raised = FALSE
  /\ pc = "idle"
  /\ calls = <<>>
  /\ nops = 0

\* an operation that writes into self.data (inplace=True, item assignment,
\* DataFrame.update): the caller's DataFrame changes with it while it is
\* the same object
InPlace(new) ==
  /\ data' = new
  /\ df' = IF same THEN new ELSE df
  /\ same' = same

\* self.data = <a new DataFrame>: the caller's DataFrame is left as it is
Rebind(new) ==
  /\ data' = new
  /\ df' = df
  /\ same' = FALSE

CanCall == pc = "idle" /\ nops < MaxOps

\* bookkeeping of one complete call by the caller
Called(call, returned, exc) ==
  /\ op' = call
  /\ pre' = data
  /\ ret' = returned
  /\ raised' = exc
  /\ calls' = <<call.name>>
  /\ nops' = nops + 1
  /\ pc' = "idle"

\* ------------------------------------------------------------------------
\* The operations as calls
\* ------------------------------------------------------------------------
DoCapitalizeCols ==
  /\ CanCall
  /\ InPlace(CapitalizeCols(data))
  /\ Called([NoCall EXCEPT !.name = "capitalize_cols"], data', FALSE)

DoFixIndex ==
  /\ CanCall
  /\ Rebind(FixIndex(data))
  /\ Called([NoCall EXCEPT !.name = "fix_index"], data', FALSE)

DoUpdateBlanks(BlankVals, BlankAdds) ==
  /\ CanCall
  /\ \E v \in BlankVals, a \in BlankAdds :
       /\ InPlace(UpdateBlanks(data, v, a))
       /\ Called([NoCall EXCEPT !.name = "update_blanks",
                                !.blank_val = v, !.blank_additions = a],
                 data', FALSE)

DoUpdateMissing(MissVals, LogSkipVals, MissAdds, LogAdds, Blanks) ==
  /\ CanCall
  /\ \E mv \in MissVals, lv \in LogSkipVals, ma \in MissAdds, la \in LogAdds,
        b \in Blanks :
       /\ InPlace(UpdateMissing(data, mv, lv, ma, la, b))
       /\ Called([NoCall EXCEPT !.name = "update_missing",
                                !.miss_val = mv, !.log_skip_val = lv,
                                !.miss_additions = ma, !.logskip_additions = la,
                                !.blank = b],
                 data', FALSE)

\* the caller repeats its last update_missing call with the same arguments
DoUpdateMissingAgain ==
  /\ CanCall
  /\ op.name \in {"update_missing", "update_missing_again"}
  /\ InPlace(UpdateMissing(data, op.miss_val, op.log_skip_val,
                           op.miss_additions, op.logskip_additions, op.blank))
  /\ Called([op EXCEPT !.name = "update_missing_again"], data', FALSE)

DoUpdateOtherMissing(AddVals, ToVals, Excludes) ==
  /\ CanCall
  /\ \E a \in AddVals, c \in ToVals, e \in Excludes :
       LET r == UpdateOtherMissing(data, a, c, e)
           call == [NoCall EXCEPT !.name = "update_other_missing",
                                  !.add_miss_val = a, !.change_to_val = c,
                                  !.exclude_cols = e]
       IN IF r.raised
          THEN /\ InPlace(r.updated)
               /\ Called(call, data', TRUE)
          ELSE /\ data' = r.table
               /\ df' = IF same THEN r.updated ELSE df
               /\ same' = FALSE
               /\ Called(call, data', FALSE)

DoSetIntObject ==
  /\ CanCall
  /\ InPlace(SetIntObject(data))
  /\ Called([NoCall EXCEPT !.name = "set_int_object"], data', FALSE)

DoSetAllObject ==
  /\ CanCall
  /\ InPlace(SetAllObject(data))
  /\ Called([NoCall EXCEPT !.name = "set_all_object"], data', FALSE)

DoConvertNumDtypes(ExcludeLists, AsInts) ==
  /\ CanCall
  /\ \E e \in ExcludeLists, ai \in AsInts :
       LET r == ConvertNumDtypes(data, e, ai)
       IN /\ InPlace(r.table)
          /\ Called([NoCall EXCEPT !.name = "convert_num_dtypes",
                                   !.exclude = e, !.as_int = ai],
                    data', r.raised)

\* ------------------------------------------------------------------------
\* full_prep, statement by statement
\* ------------------------------------------------------------------------
FullPrepCall(MissVals, LogSkipVals, Blanks, BlankVals) ==
  /\ CanCall
  /\ \E mv \in MissVals, lv \in LogSkipVals, b \in Blanks, bv \in BlankVals :
       op' = [NoCall EXCEPT !.name = "full_prep", !.miss_val = mv,
                            !.log_skip_val = lv, !.blank = b, !.blank_val = bv]
  /\ pre' = data
  /\ calls' = <<>>
  /\ pc' = "l292"
  /\ UNCHANGED <<df, data, same, ret, raised, nops>>

\* line 292: self.capitalize_cols()
FullPrepCapitalize ==
  /\ pc = "l292"
  /\ InPlace(CapitalizeCols(data))
  /\ calls' = Append(calls, "capitalize_cols")
  /\ pc' = "l293"
  /\ UNCHANGED <<op, pre, ret, raised, nops>>

\* line 293: self.fix_index()
FullPrepFixIndex ==
  /\ pc = "l293"
  /\ Rebind(FixIndex(data))
  /\ calls' = Append(calls, "fix_index")
  /\ pc' = "l298"
  /\ UNCHANGED <<op, pre, ret, raised, nops>>

\* FullPrepUpdateBlanks without the test of blank
FullPrepUpdateBlanksAlways ==
  /\ pc = "l298"
  /\ InPlace(UpdateBlanks(data, op.blank_val, {}))
  /\ calls' = Append(calls, "update_blanks")
  /\ pc' = "l300"
  /\ UNCHANGED <<op, pre, ret, raised, nops>>

\* lines 298-299: if blank == True: self.update_blanks(blank_val)
FullPrepUpdateBlanks ==
  /\ pc = "l298"
  /\ op.blank
  /\ InPlace(UpdateBlanks(data, op.blank_val, {}))
  /\ calls' = Append(calls, "update_blanks")
  /\ pc' = "l300"
  /\ UNCHANGED <<op, pre, ret, raised, nops>>

\* line 300: self.update_missing(miss_val, log_skip_val, blank=True)
FullPrepUpdateMissingBlank ==
  /\ pc = "l300"
  /\ InPlace(UpdateMissing(data, op.miss_val, op.log_skip_val, {}, {}, TRUE))
  /\ calls' = Append(calls, "update_missing")
  /\ pc' = "l303"
  /\ UNCHANGED <<op, pre, ret, raised, nops>>

\* lines 301-302: else: self.update_missing(miss_val, log_skip_val)
FullPrepUpdateMissing ==
  /\ pc = "l298"
  /\ ~op.blank
  /\ InPlace(UpdateMissing(data, op.miss_val, op.log_skip_val, {}, {}, FALSE))
  /\ calls' = Append(calls, "update_missing")
  /\ pc' = "l303"
  /\ UNCHANGED <<op, pre, ret, raised, nops>>

\* line 303: return self.data
FullPrepReturn ==
  /\ pc = "l303"
  /\ ret' = data
  /\ raised' = FALSE
  /\ nops' = nops + 1
  /\ pc' = "idle"
  /\ UNCHANGED <<df, data, same, op, pre, calls>>

\* ------------------------------------------------------------------------
\* Names and values the specifications draw from
\* ------------------------------------------------------------------------
nFNAME == <<"F","N","A","M","E">>
nFnameLower == <<"f","n","a","m","e">>
nQ1 == <<"Q","1">>
nQ1Lower == <<"q","1">>
nQ2 == <<"Q","2">>
nUnnamedLower == <<"u","n","n","a","m","e","d",":"," ","0">>
nUnnamedUpper == <<"U","N","N","A","M","E","D",":"," ","0">>
nUnnamedMixed == <<"U","n","n","a","m","e","d",":"," ","0">>

sX == <<"x">>
sMinus99 == <<"-","9","9">>
sMinus98 == <<"-","9","8">>
sMinus97 == <<"-","9","7">>
sMinus96 == <<"-","9","6">>
sDotN == <<".","N">>

\* ------------------------------------------------------------------------
\* update_missing on its own, then repeated with the same arguments
\* ------------------------------------------------------------------------
MissingCells ==
  {Str(sM), Str(sL), Str(sDotM), Str(sDotL), Str(sEmpty), Str(sX), NA}

MissingTables ==
  TablesUpTo({<<nFNAME, nQ1>>, <<nQ1>>}, MaxSentinelRows, MissingCells)

MissingMissVals == {Str(sMinus99), Str(sM), Str(sL), Str(sDotM), Str(sDotL)}
MissingLogSkipVals == {Str(sMinus98), Str(sM), Str(sL), Str(sDotM), Str(sDotL)}
MissingMissAdds == {{}, {Str(sX)}}
MissingLogAdds == {{}, {Str(sL)}}

InitMissing == InitWith(MissingTables)

CallUpdateMissing ==
  /\ nops = 0
  /\ DoUpdateMissing(MissingMissVals, MissingLogSkipVals,
                     MissingMissAdds, MissingLogAdds, BOOLEAN)

CallUpdateMissingAgain == DoUpdateMissingAgain

NextMissing == CallUpdateMissing \/ CallUpdateMissingAgain

SpecMissing == InitMissing /\ [][NextMissing]_vars

\* the call just made was update_missing without extra markers
PlainUpdateMissing ==
  /\ op.name = "update_missing"
  /\ op.miss_additions = {}
  /\ op.logskip_additions = {}

\* cell of column i, row r before / after the last call
Before(i, r) == pre.columns[i].cells[r]
After(i, r) == ret.columns[i].cells[r]

Positions(t) == {<<i, r>> : i \in DOMAIN t.columns, r \in DOMAIN t.index}

NamePositions(t) == {p \in Positions(t) : IsNameCol(t.columns[p[1]].name)}
OtherPositions(t) == {p \in Positions(t) : ~IsNameCol(t.columns[p[1]].name)}

\* C1 as stated: in the name columns, update_missing (no additions) keeps
\* bare "M" and bare "L", turns ".M" into miss_val and ".L" into
\* log_skip_val, for every miss_val and log_skip_val.
C1_AsStated ==
  PlainUpdateMissing =>
    \A p \in NamePositions(pre) :
      /\ Before(p[1], p[2]) \in {Str(sM), Str(sL)}
           => After(p[1], p[2]) = Before(p[1], p[2])
      /\ Before(p[1], p[2]) = Str(sDotM) => After(p[1], p[2]) = op.miss_val
      /\ Before(p[1], p[2]) = Str(sDotL) => After(p[1], p[2]) = op.log_skip_val

\* C1 amended: as C1, except that a ".M" cell ends as log_skip_val when
\* miss_val is itself ".L" (the logical-skip replacement runs after the
\* missing replacement and picks the new ".L" up).
C1_NameColumnProtection ==
  PlainUpdateMissing =>
    \A p \in NamePositions(pre) :
      /\ Before(p[1], p[2]) \in {Str(sM), Str(sL)}
           => After(p[1], p[2]) = Before(p[1], p[2])
      /\ Before(p[1], p[2]) = Str(sDotM)
           => After(p[1], p[2]) =
                IF op.miss_val = Str(sDotL) THEN op.log_skip_val ELSE op.miss_val
      /\ Before(p[1], p[2]) = Str(sDotL) => After(p[1], p[2]) = op.log_skip_val

\* a name column held bare "M" and kept it, while the bare "M" of the other
\* column was replaced by miss_val
C1_Witness ==
  /\ PlainUpdateMissing
  /\ op.miss_val = Str(sMinus99)
  /\ \E p \in NamePositions(pre) :
       Before(p[1], p[2]) = Str(sM) /\ After(p[1], p[2]) = Str(sM)
  /\ \E p \in OtherPositions(pre) :
       Before(p[1], p[2]) = Str(sM) /\ After(p[1], p[2]) = Str(sMinus99)

HasNameCol(t) == NameCols(t) # {}

\* C2 as stated: when the table has a name column, update_missing leaves
\* every bare "L" cell unchanged, in the other columns too.
C2_AsStated ==
  (PlainUpdateMissing /\ HasNameCol(pre)) =>
    \A p \in Positions(pre) :
      Before(p[1], p[2]) = Str(sL) => After(p[1], p[2]) = Str(sL)

\* C2 amended: when the table has a name column, update_missing without
\* extra markers leaves the bare "L" cells of the name columns unchanged and
\* replaces every bare "L" cell of the other columns by log_skip_val.
C2_BareLByColumn ==
  (PlainUpdateMissing /\ HasNameCol(pre)) =>
    /\ \A p \in NamePositions(pre) :
         Before(p[1], p[2]) = Str(sL) => After(p[1], p[2]) = Str(sL)
    /\ \A p \in OtherPositions(pre) :
         Before(p[1], p[2]) = Str(sL) => After(p[1], p[2]) = op.log_skip_val

\* a table with a name column whose bare "L" stayed and whose other column's
\* bare "L" became log_skip_val
C2_Witness ==
  /\ PlainUpdateMissing
  /\ op.log_skip_val = Str(sMinus98)
  /\ \E p \in NamePositions(pre) :
       Before(p[1], p[2]) = Str(sL) /\ After(p[1], p[2]) = Str(sL)
  /\ \E p \in OtherPositions(pre) :
       Before(p[1], p[2]) = Str(sL) /\ After(p[1], p[2]) = Str(sMinus98)

\* C8 as stated: a second update_missing with the same arguments leaves the
\* table as the first call left it, for every miss_val and log_skip_val,
\* the markers "M", "L", ".M", ".L" included.
C8_AsStated ==
  op.name = "update_missing_again" => ret = pre

\* the values the call replaces by miss_val in a column that is not a name
\* column: the missing markers and bare "M"
C8_TurnedIntoMissVal ==
  {Str(sM), Str(sDotM)} \cup op.miss_additions
  \cup (IF op.blank THEN {}
        ELSE {Str(sEmpty), Str(sSpace), Str(sDot), Str(sNan), Str(sNaN), NA})

\* C8 amended: a second update_missing with the same arguments leaves the
\* table as the first call left it, provided log_skip_val is not a value
\* the call turns into a different miss_val (bare "M", ".M", an extra
\* missing marker or, with blank false, a blank marker) and miss_val is not
\* bare "L" with a different log_skip_val.
C8_IdempotentWhenValuesStay ==
  ( /\ op.name = "update_missing_again"
    /\ op.log_skip_val \in C8_TurnedIntoMissVal => op.log_skip_val = op.miss_val
    /\ op.miss_val = Str(sL) => op.log_skip_val = Str(sL) )
  => ret = pre

\* the default markers ".M" / ".L" were passed, the first call rewrote a
\* bare "M", and the second call has run
C8_Witness ==
  /\ op.name = "update_missing_again"
  /\ op.miss_val = Str(sDotM)
  /\ op.log_skip_val = Str(sDotL)
  /\ \E p \in OtherPositions(ret) : After(p[1], p[2]) = Str(sDotM)
  /\ \E p \in NamePositions(ret) : After(p[1], p[2]) = Str(sM)

\* ------------------------------------------------------------------------
\* update_blanks on its own
\* ------------------------------------------------------------------------
BlanksCells ==
  {Str(sEmpty), Str(sSpace), Str(sSpace2), Str(sDot), Str(sNan), Str(sNaN), NA,
   Str(sX), Str(sDotN)}

BlanksTables == TablesUpTo({<<nFNAME, nQ1>>}, MaxSentinelRows, BlanksCells)

BlanksVals == {Str(sMinus97), Str(sDot)}
BlanksAdds == {{}, {Str(sDotN)}}

InitBlanks == InitWith(BlanksTables)

CallUpdateBlanks == nops = 0 /\ DoUpdateBlanks(BlanksVals, BlanksAdds)

NextBlanks == CallUpdateBlanks

SpecBlanks == InitBlanks /\ [][NextBlanks]_vars

\* only blanks (or nothing at all)
IsWhitespace(s) == \A i \in DOMAIN s : s[i] = " "

\* the Blank class as the claim lists it: the empty string, any
\* whitespace-only string, ".", "nan", "NaN", the absent value, the additions
C3_BlankClassAsStated(c) ==
  \/ c = NA
  \/ c.k = "str" /\ IsWhitespace(c.s)
  \/ c \in {Str(<<".">>), Str(<<"n","a","n">>), Str(<<"N","a","N">>)}
  \/ c \in op.blank_additions

\* the markers update_blanks replaces: of the whitespace-only strings, the
\* single space alone
C3_BlankMarkers ==
  {Str(<<>>), Str(<<" ">>), Str(<<".">>), Str(<<"n","a","n">>),
   Str(<<"N","a","N">>), NA} \cup op.blank_additions

\* C3 as stated: after update_blanks(v) every cell that held a Blank-class
\* marker (whitespace-only strings of any length included) holds v, no cell
\* holds a marker (other than v itself), and every other cell is unchanged,
\* in name columns as in the others.
C3_AsStated ==
  op.name = "update_blanks" =>
    \A p \in Positions(pre) :
      /\ C3_BlankClassAsStated(Before(p[1], p[2])) => After(p[1], p[2]) = op.blank_val
      /\ ~C3_BlankClassAsStated(Before(p[1], p[2]))
           => After(p[1], p[2]) = Before(p[1], p[2])
      /\ C3_BlankClassAsStated(After(p[1], p[2])) => After(p[1], p[2]) = op.blank_val

\* C3 amended: the markers are the empty string, the single space, ".",
\* "nan", "NaN", the absent value and the additions; after update_blanks(v)
\* every cell that held a marker holds v, no cell holds a marker other than
\* v, every other cell (a longer whitespace-only string too) is unchanged,
\* in name columns as in the others.
C3_Coverage ==
  op.name = "update_blanks" =>
    \A p \in Positions(pre) :
      /\ Before(p[1], p[2]) \in C3_BlankMarkers => After(p[1], p[2]) = op.blank_val
      /\ Before(p[1], p[2]) \notin C3_BlankMarkers
           => After(p[1], p[2]) = Before(p[1], p[2])
      /\ After(p[1], p[2]) \in C3_BlankMarkers => After(p[1], p[2]) = op.blank_val

\* a blank in the name column and the absent value in the other column were
\* both replaced by "-97"
C3_Witness ==
  /\ op.name = "update_blanks"
  /\ op.blank_val = Str(sMinus97)
  /\ \E p \in NamePositions(pre) :
       Before(p[1], p[2]) = Str(sSpace) /\ After(p[1], p[2]) = Str(sMinus97)
  /\ \E p \in OtherPositions(pre) :
       Before(p[1], p[2]) = NA /\ After(p[1], p[2]) = Str(sMinus97)

\* ------------------------------------------------------------------------
\* fix_index on its own
\* ------------------------------------------------------------------------
FixIndexNames == {nUnnamedLower, nUnnamedUpper, nUnnamedMixed, nQ1, nFNAME}

\* the lists of one to three different names
FixIndexNameLists ==
  {l \in UNION {[1..k -> FixIndexNames] : k \in 1..3} :
     \A i, j \in DOMAIN l : i # j => l[i] # l[j]}

FixIndexTables == TablesUpTo(FixIndexNameLists, MaxSentinelRows, {Str(sX), Str(sM)})

InitFixIndex == InitWith(FixIndexTables)

CallFixIndex == nops = 0 /\ DoFixIndex

NextFixIndex == CallFixIndex

SpecFixIndex == InitFixIndex /\ [][NextFixIndex]_vars

\* the name starts with "unnamed", compared without regard to case
C5_IsUnnamed(name) ==
  StartsWith(Lower(name), <<"u","n","n","a","m","e","d">>)

\* C5 as stated: fix_index on its own removes every column whose name
\* starts with "unnamed" in any mix of upper and lower case, removes no
\* other column, and keeps the remaining columns in order and unchanged.
C5_AsStated ==
  op.name = "fix_index" =>
    ret.columns =
      SelectSeqBy(pre.columns,
                  [i \in DOMAIN pre.columns |-> ~C5_IsUnnamed(pre.columns[i].name)])

\* ------------------------------------------------------------------------
\* update_other_missing on its own
\* ------------------------------------------------------------------------
OtherCells == {Str(sDotN), Str(sX), NA}

OtherTables == TablesUpTo({<<nFNAME, nQ1, nQ2>>}, MaxSentinelRows, OtherCells)

OtherAddVals == {Str(sDotN), NA}
OtherToVals == {Str(sMinus96), NA}

OtherExcludes ==
  {NoExclude,
   [isstr |-> TRUE, str |-> nQ2, list |-> <<>>],
   [isstr |-> FALSE, str |-> <<>>, list |-> <<nQ2>>],
   [isstr |-> FALSE, str |-> <<>>, list |-> <<nQ1, nQ2>>]}

InitOther == InitWith(OtherTables)

CallUpdateOtherMissing ==
  nops = 0 /\ DoUpdateOtherMissing(OtherAddVals, OtherToVals, OtherExcludes)

NextOther == CallUpdateOtherMissing

SpecOther == InitOther /\ [][NextOther]_vars

\* the columns the caller excluded, given as one name or as a list
C6_Excluded ==
  IF op.exclude_cols.isstr THEN {op.exclude_cols.str}
  ELSE {op.exclude_cols.list[i] : i \in DOMAIN op.exclude_cols.list}

\* C6 as stated: update_other_missing changes no cell of a name column or of
\* an excluded column; in every other column each cell equal to add_miss_val
\* becomes change_to_val and every other cell is unchanged.
C6_AsStated ==
  (op.name = "update_other_missing" /\ ~raised) =>
    \A p \in Positions(pre) :
      IF \/ Contains(pre.columns[p[1]].name, <<"N","A","M","E">>)
         \/ pre.columns[p[1]].name \in C6_Excluded
      THEN After(p[1], p[2]) = Before(p[1], p[2])
      ELSE After(p[1], p[2]) =
             IF Before(p[1], p[2]) = op.add_miss_val
             THEN op.change_to_val ELSE Before(p[1], p[2])

\* ------------------------------------------------------------------------
\* convert_num_dtypes on its own
\* ------------------------------------------------------------------------
sOne == <<"1">>
sTwoPointFive == <<"2",".","5">>

ConvertCells == {Str(sOne), Str(sTwoPointFive), Str(sX), NA}

ConvertTables == TablesUpTo({<<nQ1, nQ2>>}, MaxRows, ConvertCells)

\* the exclude lists of up to two existing column names, repeats included
ConvertExcludes == UNION {[1..k -> {nQ1, nQ2}] : k \in 0..2}

InitConvert == InitWith(ConvertTables)

CallConvertNumDtypes == nops = 0 /\ DoConvertNumDtypes(ConvertExcludes, BOOLEAN)

NextConvert == CallConvertNumDtypes

SpecConvert == InitConvert /\ [][NextConvert]_vars

\* every cell of the column is a number, the absent value, or text that
\* reads as a number
C7_AllParse(col) ==
  \A r \in DOMAIN col.cells :
    \/ col.cells[r].k # "str"
    \/ ParseNumber(col.cells[r].s) # ParseFail

C7_IsNumericColumn(col) ==
  /\ col.dtype # "object"
  /\ \A r \in DOMAIN col.cells : col.cells[r].k \in {"int", "float", "na"}

\* what the claim says of the columns: excluded columns and columns with a
\* cell that does not parse are unchanged, the others are numeric
C7_Columns ==
  \A i \in DOMAIN pre.columns :
    IF \E j \in DOMAIN op.exclude : op.exclude[j] = pre.columns[i].name
    THEN ret.columns[i] = pre.columns[i]
    ELSE IF C7_AllParse(pre.columns[i])
    THEN ret.columns[i].name = pre.columns[i].name /\ C7_IsNumericColumn(ret.columns[i])
    ELSE ret.columns[i] = pre.columns[i]

\* C7 as stated: for every exclude list of existing column names the call
\* returns normally and converts each column wholly or not at all.
C7_AsStated ==
  op.name = "convert_num_dtypes" => (~raised /\ C7_Columns)

\* C7 amended: for every exclude list of different existing column names
\* the call returns normally; each non-excluded column whose cells all
\* parse becomes numeric, each non-excluded column with a cell that does not
\* parse is unchanged (cells and type), whatever happened to the columns
\* before it, and excluded columns are unchanged.  (A name listed twice
\* makes columns.remove raise ValueError.)
C7_AllOrNothing ==
  ( /\ op.name = "convert_num_dtypes"
    /\ \A i, j \in DOMAIN op.exclude : i # j => op.exclude[i] # op.exclude[j] )
  => (~raised /\ C7_Columns)

\* the first column has a cell that does not parse and is unchanged, the
\* second column, after it, was converted
C7_Witness ==
  /\ op.name = "convert_num_dtypes"
  /\ op.exclude = <<>>
  /\ ~raised
  /\ NumRows(pre) >= 2
  /\ \E r \in DOMAIN pre.index : Before(1, r) = Str(sX)
  /\ \E r \in DOMAIN pre.index : Before(1, r) = Str(sOne)
  /\ ret.columns[1] = pre.columns[1]
  /\ pre.columns[2].dtype = "object"
  /\ ret.columns[2].dtype = "float64"

\* ------------------------------------------------------------------------
\* full_prep on its own
\* ------------------------------------------------------------------------
FullPrepCells == {Str(sM), Str(sDotL), Str(sEmpty), Str(sX)}

FullPrepTables ==
  TablesUpTo({<<nUnnamedMixed, nFnameLower, nQ1Lower>>, <<nQ1, nQ2>>},
             MaxSentinelRows, FullPrepCells)

FullPrepMissVals == {Str(sDotM), Str(sMinus99)}
FullPrepLogSkipVals == {Str(sDotL), Str(sMinus98)}
FullPrepBlankVals == {Str(sMinus97)}

InitFullPrep == InitWith(FullPrepTables)

CallFullPrep ==
  /\ nops = 0
  /\ FullPrepCall(FullPrepMissVals, FullPrepLogSkipVals, BOOLEAN, FullPrepBlankVals)

NextFullPrep ==
  \/ CallFullPrep
  \/ FullPrepCapitalize
  \/ FullPrepFixIndex
  \/ FullPrepUpdateBlanks
  \/ FullPrepUpdateMissingBlank
  \/ FullPrepUpdateMissing
  \/ FullPrepReturn

SpecFullPrep == InitFullPrep /\ [][NextFullPrep]_vars

\* the order the claim gives
C4_Order ==
  IF op.blank
  THEN <<"capitalize_cols", "fix_index", "update_blanks", "update_missing">>
  ELSE <<"capitalize_cols", "fix_index", "update_missing">>

\* the table the claim gives: each step applied to the result of the one
\* before, starting from the table full_prep was called on
C4_Result ==
  LET t2 == FixIndex(CapitalizeCols(pre))
  IN IF op.blank
     THEN UpdateMissing(UpdateBlanks(t2, op.blank_val, {}),
                        op.miss_val, op.log_skip_val, {}, {}, TRUE)
     ELSE UpdateMissing(t2, op.miss_val, op.log_skip_val, {}, {}, FALSE)

\* C4: full_prep runs capitalize_cols, fix_index, then update_blanks and
\* update_missing(blank=True) when blank is true and update_missing alone
\* when it is false; at every moment the steps run so far are the first
\* steps of that order, and the table returned is the last step's result,
\* each step having worked on the table the step before left.
C4_FixedOrder ==
  op.name = "full_prep" =>
    /\ Len(calls) <= Len(C4_Order)
    /\ calls = SubSeq(C4_Order, 1, Len(calls))
    /\ pc = "idle" => (calls = C4_Order /\ ret = C4_Result /\ ret = data)

\* full_prep returned with blank true: the artifact column is gone, the
\* blank of the last column is "-97" and its neighbour's bare "M" is kept
C4_Witness ==
  /\ op.name = "full_prep"
  /\ pc = "idle"
  /\ op.blank
  /\ op.miss_val = Str(sMinus99)
  /\ NumCols(pre) = 3
  /\ NumCols(ret) = 2
  /\ ret.columns[1].name = nFNAME
  /\ Before(2, 1) = Str(sM) /\ After(1, 1) = Str(sM)
  /\ Before(3, 1) = Str(sEmpty) /\ After(2, 1) = Str(sMinus97)

\* ------------------------------------------------------------------------
\* Any sequence of calls
\* ------------------------------------------------------------------------
sOnePointZero == <<"1",".","0">>

AnyCells == {Str(sOnePointZero), Str(sEmpty)}

AnyTables ==
  TablesUpTo({<<nUnnamedLower, nFnameLower>>}, MaxRows, AnyCells)

Init == InitWith(AnyTables)

CallCapitalizeCols == DoCapitalizeCols

CallFixIndexAny == DoFixIndex

CallUpdateBlanksAny == DoUpdateBlanks({Str(sMinus97)}, {{}})

CallUpdateMissingAny ==
  DoUpdateMissing({Str(sMinus99)}, {Str(sMinus98)}, {{}}, {{}}, {FALSE})

CallUpdateOtherMissingAny ==
  DoUpdateOtherMissing({Str(sOnePointZero)}, {Str(sMinus96)},
                       {NoExclude, [isstr |-> TRUE, str |-> nUnnamedLower, list |-> <<>>]})

CallSetIntObject == DoSetIntObject

CallSetAllObject == DoSetAllObject

CallConvertNumDtypesAny == DoConvertNumDtypes({<<>>}, BOOLEAN)

CallFullPrepAny ==
  FullPrepCall({Str(sDotM)}, {Str(sDotL)}, BOOLEAN, {Str(sMinus97)})

Next ==
  \/ CallCapitalizeCols
  \/ CallFixIndexAny
  \/ CallUpdateBlanksAny
  \/ CallUpdateMissingAny
  \/ CallUpdateOtherMissingAny
  \/ CallSetIntObject
  \/ CallSetAllObject
  \/ CallConvertNumDtypesAny
  \/ CallFullPrepAny
  \/ FullPrepCapitalize
  \/ FullPrepFixIndex
  \/ FullPrepUpdateBlanks
  \/ FullPrepUpdateMissingBlank
  \/ FullPrepUpdateMissing
  \/ FullPrepReturn

Spec == Init /\ [][Next]_vars

\* the step just taken ran fix_index (as a call or as line 293 of full_prep)
C9_IsFixIndexStep ==
  \/ pc = "l293"
  \/ (pc = "idle" /\ pc' = "idle" /\ op'.name = "fix_index")

\* s is t with some columns taken out, the others in order and unchanged,
\* and every column taken out has a name starting with "unnamed" in some case
C9_OnlyUnnamedDropped(t, s) ==
  \E keep \in [DOMAIN t.columns -> BOOLEAN] :
    /\ s.columns = SelectSeqBy(t.columns, keep)
    /\ \A i \in DOMAIN t.columns : ~keep[i] => C5_IsUnnamed(t.columns[i].name)

\* C9: every step of every operation leaves the row index (row count and
\* row order) as it was and every column as long as the index; every
\* operation but fix_index leaves the number of columns as it was; fix_index
\* takes out only columns whose name starts with "unnamed", so the column
\* count drops by the number of those it took out.
C9_ShapePreserved ==
  [][ /\ data'.index = data.index
      /\ \A i \in DOMAIN data'.columns :
           Len(data'.columns[i].cells) = Len(data'.index)
      /\ IF C9_IsFixIndexStep
         THEN C9_OnlyUnnamedDropped(data, data')
         ELSE NumCols(data') = NumCols(data)
    ]_vars

\* after a first call, fix_index took one column out of a two-row table
C9_Witness ==
  /\ nops = 2
  /\ pc = "idle"
  /\ op.name = "fix_index"
  /\ NumRows(pre) = 2
  /\ NumRows(ret) = 2
  /\ NumCols(pre) = 2
  /\ NumCols(ret) = 1

\* C10 as stated: after any operation the table the caller holds has the
\* columns, cells and column types of the table the operation returned.
C10_AsStated ==
  (pc = "idle" /\ nops > 0 /\ ~raised) => df = ret

====
